---- MODULE Spec2Model ----
(***************************************************************************)
(* Model of src/src/ClassParser.ts: the rewrite of a compiled class        *)
(* factory (`var Foo = (function(){...})()` or `new (function(){...}())`)   *)
(* into a class declaration.                                               *)
(*                                                                         *)
(* A syntax-tree node is a record with a `type` field; a missing property  *)
(* reads as Undefined (Get), a list-valued property is a sequence.  A call  *)
(* that can raise returns a record [thrown, val, walks]: `walks` lists the *)
(* tree walks it started, each with the base visitor it handed over.       *)
(* Nodes are values here: object identity is kept only for the value       *)
(* returned by parse (outcome "identity" = the very parent passed in).     *)
(***************************************************************************)
EXTENDS Integers, Sequences, FiniteSets, TLC

\* ---------------------------------------------------------------- bounds
\* Largest number of sibling declarators beside the candidate declarator.
MaxSiblings == 2
\* Largest number of member-assignment statements in a factory body.
MaxMethods == 2
\* Largest number of alias declarators in a constructor body.
MaxAliasDecls == 3

\* ------------------------------------------------------- values and nodes
Undefined == [type |-> "undefined"]
Null == [type |-> "null"]
\* `{}` as written on lines 451, 475 and 360: an object with no property.
EmptyObject == [type |-> "EmptyObject"]

Truthy(v) == v.type \notin {"undefined", "null"}
Get(n, f) == IF f \in DOMAIN n THEN n[f] ELSE Undefined
Has(n, f) == f \in DOMAIN n
\* JavaScript list indexing, 0-based; out of range reads undefined.
At(s, i) == IF i + 1 \in DOMAIN s THEN s[i + 1] ELSE Undefined
\* { ...n, f: v }
With(n, f, v) == [x \in (DOMAIN n) \cup {f} |-> IF x = f THEN v ELSE n[x]]
NameOf(n) == IF "name" \in DOMAIN n THEN n.name ELSE ""

Id(n) == [type |-> "Identifier", name |-> n]
This == [type |-> "ThisExpression"]
Lit(v) == [type |-> "Literal", value |-> v]
Member(o, p) == [type |-> "MemberExpression", object |-> o, property |-> p, computed |-> FALSE]
Call(c, a) == [type |-> "CallExpression", callee |-> c, arguments |-> a]
New(c, a) == [type |-> "NewExpression", callee |-> c, arguments |-> a]
Paren(e) == [type |-> "ParenthesizedExpression", expression |-> e]
Assign(l, r) == [type |-> "AssignmentExpression", operator |-> "=", left |-> l, right |-> r]
Logical(l, op, r) == [type |-> "LogicalExpression", operator |-> op, left |-> l, right |-> r]
Block(stmts) == [type |-> "BlockStatement", body |-> stmts]
Func(t, id, params, stmts) == [type |-> t, id |-> id, params |-> params, body |-> Block(stmts)]
ExprStmt(e) == [type |-> "ExpressionStatement", expression |-> e]
Declarator(id, init) == [type |-> "VariableDeclarator", id |-> id, init |-> init]
VarDecl(ds) == [type |-> "VariableDeclaration", kind |-> "var", declarations |-> ds]
Return(a) == [type |-> "ReturnStatement", argument |-> a]
\* The `for` loop that copies `arguments`; its parts are never inspected.
ForStmt == [type |-> "ForStatement"]

Ok(v, w) == [thrown |-> FALSE, val |-> v, walks |-> w]
Throw(w) == [thrown |-> TRUE, val |-> Undefined, walks |-> w]
WalkRec(site, base) == [site |-> site, base |-> base]

\* ------------------------------------------------------------ type guards
isValidIdentifier(node) == Truthy(node) /\ node.type = "Identifier" /\ Has(node, "name")

isValidMemberExpression(node) ==
    /\ Truthy(node)
    /\ node.type = "MemberExpression"
    /\ Truthy(Get(node, "object"))
    /\ Truthy(Get(node, "property"))

isValidFunctionExpression(node) ==
    /\ Truthy(node)
    /\ node.type = "FunctionExpression"
    /\ Truthy(Get(node, "body"))
    /\ Has(Get(node, "body"), "body")

\* recast.print(node).code for the expressions compared on lines 441/465.
RECURSIVE printCode(_)
printCode(n) ==
    CASE n.type = "Identifier" -> n.name
      [] n.type = "ThisExpression" -> "this"
      [] n.type = "Literal" -> "\"" \o n.value \o "\""
      [] n.type = "MemberExpression" -> printCode(n.object) \o "." \o printCode(n.property)
      [] OTHER -> "<" \o n.type \o ">"

\* ------------------------------------------------- the tree-walking facility
\* walk.ancestor(root, visitors, base) descends through base[type] and then
\* calls visitors[type] on the node (children first).  The children it
\* descends into, per node type: patterns (a declarator's id, a function's
\* id and parameters, an identifier assigned to) and the property of a
\* non-computed member access are not visited as expressions.
NodeFields(n) ==
    CASE n.type \in {"FunctionExpression", "FunctionDeclaration"} -> {"body"}
      [] n.type = "ExpressionStatement" -> {"expression"}
      [] n.type = "VariableDeclarator" -> {"init"}
      [] n.type = "ReturnStatement" -> {"argument"}
      [] n.type = "AssignmentExpression" ->
            IF n.left.type = "Identifier" THEN {"right"} ELSE {"left", "right"}
      [] n.type = "LogicalExpression" -> {"left", "right"}
      [] n.type \in {"CallExpression", "NewExpression"} -> {"callee"}
      [] n.type = "MemberExpression" ->
            IF n.computed THEN {"object", "property"} ELSE {"object"}
      [] n.type = "ParenthesizedExpression" -> {"expression"}
      [] n.type = "SpreadElement" -> {"argument"}
      [] OTHER -> {}

ListFields(n) ==
    CASE n.type = "BlockStatement" -> {"body"}
      [] n.type = "VariableDeclaration" -> {"declarations"}
      [] n.type \in {"CallExpression", "NewExpression"} -> {"arguments"}
      [] OTHER -> {}

\* The walk visits a node of type ty somewhere in n.
RECURSIVE Reaches(_, _)
Reaches(n, ty) ==
    \/ n.type = ty
    \/ \E f \in NodeFields(n) : Reaches(n[f], ty)
    \/ \E f \in ListFields(n) : \E i \in DOMAIN n[f] : Reaches(n[f][i], ty)

\* The `Identifier` visitor of replaceIdentifierReferences (lines 216-220),
\* applied over the whole tree n.
RECURSIVE RenameWalk(_, _)
RenameWalk(n, targetIdentifier) ==
    LET m == [f \in DOMAIN n |->
                IF f \in NodeFields(n) THEN RenameWalk(n[f], targetIdentifier)
                ELSE IF f \in ListFields(n)
                     THEN [i \in DOMAIN n[f] |-> RenameWalk(n[f][i], targetIdentifier)]
                     ELSE n[f]]
    IN IF m.type = "Identifier" /\ m.name = targetIdentifier
       THEN [m EXCEPT !.type = "ThisExpression"]
       ELSE m

\* A base visitor with no handler for the root's type: base[type](...) is a
\* call of undefined.  An absent base falls back to the facility's default.
WalkBaseThrows(base) == base = EmptyObject

\* The visitor objects of lines 301 and 353 are plain object literals: inside
\* their methods `this` is the visitor object, whose only property is the
\* handler itself, so `this.isValidMemberExpression(...)` and
\* `this.isValidFunctionExpression(...)` call a property that is absent.
VisitorHas(visitorKeys, helper) == helper \in visitorKeys

\* The function node the walks of lines 207, 292 and 344 start from.
WalkRoot(functionExpression, functionBody) ==
    With(functionExpression, "body", With(functionExpression.body, "body", functionBody))

replaceIdentifierReferences(functionExpression, functionBodyClone, targetIdentifier, walkBase) ==
    LET w == <<WalkRec("replaceIdentifierReferences", walkBase)>>
    IN IF WalkBaseThrows(walkBase) THEN Throw(w)
       ELSE Ok([i \in DOMAIN functionBodyClone |->
                    RenameWalk(functionBodyClone[i], targetIdentifier)], w)

\* ------------------------------------------------------- the body de-aliaser
NoAlias == ""

\* All declarators of the top-level variable declarations, in source order.
RECURSIVE TopDeclarators(_)
TopDeclarators(functionBody) ==
    IF functionBody = <<>> THEN <<>>
    ELSE (IF Head(functionBody).type = "VariableDeclaration"
          THEN Head(functionBody).declarations ELSE <<>>)
         \o TopDeclarators(Tail(functionBody))

\* The inner loop with a slot written only while it is empty.
RecordAlias_KeepFirst(replacements, declarator) ==
    IF ~isValidIdentifier(declarator.id) \/ ~isValidMemberExpression(declarator.init)
    THEN replacements
    ELSE LET init == declarator.init IN
         IF init.object.type = "ThisExpression" /\ isValidIdentifier(init.property)
         THEN IF init.property.name = "props" /\ replacements.thisProps = NoAlias
              THEN [replacements EXCEPT !.thisProps = declarator.id.name]
              ELSE IF init.property.name = "constructor"
                      /\ replacements.thisConstructor = NoAlias
                   THEN [replacements EXCEPT !.thisConstructor = declarator.id.name]
                   ELSE replacements
         ELSE replacements

\* One iteration of the inner loop of lines 236-253.
RecordAlias(replacements, declarator) ==
    IF ~isValidIdentifier(declarator.id) \/ ~isValidMemberExpression(declarator.init)
    THEN replacements
    ELSE LET init == declarator.init IN
         IF init.object.type = "ThisExpression" /\ isValidIdentifier(init.property)
         THEN IF init.property.name = "props"
              THEN [replacements EXCEPT !.thisProps = declarator.id.name]
              ELSE IF init.property.name = "constructor"
                   THEN [replacements EXCEPT !.thisConstructor = declarator.id.name]
                   ELSE replacements
         ELSE IF init.type = "ThisExpression"
              THEN [replacements EXCEPT !.thisMirror = declarator.id.name]
              ELSE replacements

RECURSIVE FoldAliases(_, _)
FoldAliases(replacements, ds) ==
    IF ds = <<>> THEN replacements
    ELSE FoldAliases(RecordAlias(replacements, Head(ds)), Tail(ds))

extractVariableReplacements(functionBody) ==
    FoldAliases([thisProps |-> NoAlias, thisConstructor |-> NoAlias, thisMirror |-> NoAlias],
                TopDeclarators(functionBody))

KeepDeclarator(declarator, replacements) ==
    IF ~isValidIdentifier(declarator.id) THEN TRUE
    ELSE LET idName == declarator.id.name IN
         ~(\/ idName = replacements.thisProps
           \/ idName = replacements.thisConstructor
           \/ idName = replacements.thisMirror)

RECURSIVE cleanupVariableDeclarations(_, _)
cleanupVariableDeclarations(functionBody, replacements) ==
    IF functionBody = <<>> THEN <<>>
    ELSE LET node == Head(functionBody)
             rest == cleanupVariableDeclarations(Tail(functionBody), replacements)
         IN IF node.type = "VariableDeclaration"
            THEN LET filteredDeclarations ==
                         SelectSeq(node.declarations,
                                   LAMBDA d : KeepDeclarator(d, replacements))
                 IN IF Len(filteredDeclarations) > 0
                    THEN <<With(node, "declarations", filteredDeclarations)>> \o rest
                    ELSE rest
            ELSE <<node>> \o rest

\* Lines 292-335.  The MemberExpression visitor starts with
\* `this.isValidMemberExpression(node)` (line 302), which raises on the first
\* member expression the walk reaches; lines 305-329 are then never run, and
\* a body without member expressions is returned as it came.
applyVariableReplacements(functionExpression, functionBody, replacements, walkBase) ==
    LET w == <<WalkRec("applyVariableReplacements", walkBase)>>
        root == WalkRoot(functionExpression, functionBody)
    IN IF WalkBaseThrows(walkBase) THEN Throw(w)
       ELSE IF /\ Reaches(root, "MemberExpression")
               /\ ~VisitorHas({"MemberExpression"}, "isValidMemberExpression")
            THEN Throw(w)
            ELSE Ok(functionBody, w)

parseFunctionBody(functionExpression, context) ==
    LET walkBase == Get(context, "walkBase")
        functionBody == functionExpression.body.body
        variableReplacements == extractVariableReplacements(functionBody)
        cleanedBody == cleanupVariableDeclarations(functionBody, variableReplacements)
    IN applyVariableReplacements(functionExpression, cleanedBody, variableReplacements, walkBase)

\* Lines 344-368.  The FunctionExpression visitor starts with
\* `this.isValidFunctionExpression(node)` (line 354), which raises on the
\* first function expression reached (the root is one); the nested call of
\* parseFunctionBody with `{}` as context (line 360) is then never run.
processNestedFunctions(functionExpression, functionBodyClone, walkBase) ==
    LET w == <<WalkRec("processNestedFunctions", walkBase)>>
        root == WalkRoot(functionExpression, functionBodyClone)
    IN IF WalkBaseThrows(walkBase) THEN Throw(w)
       ELSE IF /\ Reaches(root, "FunctionExpression")
               /\ ~VisitorHas({"FunctionExpression"}, "isValidFunctionExpression")
            THEN Throw(w)
            ELSE Ok(functionBodyClone, w)

\* r, then F on r's value unless r raised; the walks of both, in order.
Bind(r, F(_)) ==
    IF r.thrown THEN r
    ELSE LET q == F(r.val) IN [q EXCEPT !.walks = r.walks \o q.walks]

\* ------------------------------------------------ constructor reconstruction
Last(s) == At(s, Len(s) - 1)

isSpreadArgumentsPattern(functionBody, lastNode, functionExpression, superClass) ==
    IF ~Truthy(superClass) \/ Len(functionExpression.params) # 0 THEN FALSE
    ELSE IF Len(functionBody) < 3 THEN FALSE
    ELSE LET firstStmt == At(functionBody, 0)
             secondStmt == At(functionBody, 1)
             thirdStmt == At(functionBody, 2)
             right == Get(Get(thirdStmt, "expression"), "right")
         IN /\ firstStmt.type = "VariableDeclaration"
            /\ Get(At(firstStmt.declarations, 0), "id").type = "Identifier"
            /\ secondStmt.type = "ForStatement"
            /\ thirdStmt.type = "ExpressionStatement"
            /\ Get(thirdStmt, "expression").type = "AssignmentExpression"
            /\ right.type = "LogicalExpression"
            /\ Get(right, "left").type = "CallExpression"
            /\ right.operator = "||"
            /\ Get(right, "right").type = "ThisExpression"
            /\ lastNode.type = "ReturnStatement"
            /\ Get(lastNode, "argument").type = "Identifier"
            /\ lastNode.argument.name = firstStmt.declarations[1].id.name

isRegularSuperCallPattern(functionBody, lastNode, superClass) ==
    IF ~Truthy(superClass) \/ Len(functionBody) < 2 THEN FALSE
    ELSE LET firstStmt == At(functionBody, 0)
             secondStmt == At(functionBody, 1)
             right == Get(Get(secondStmt, "expression"), "right")
         IN /\ firstStmt.type = "VariableDeclaration"
            /\ Get(At(firstStmt.declarations, 0), "id").type = "Identifier"
            /\ secondStmt.type = "ExpressionStatement"
            /\ Get(secondStmt, "expression").type = "AssignmentExpression"
            /\ right.type = "LogicalExpression"
            /\ Get(right, "left").type = "CallExpression"
            /\ Get(Get(right, "left"), "callee").type = "MemberExpression"
            /\ right.operator = "||"
            /\ Get(right, "right").type = "ThisExpression"
            /\ lastNode.type = "ReturnStatement"
            /\ Get(lastNode, "argument").type = "Identifier"
            /\ lastNode.argument.name = firstStmt.declarations[1].id.name

SuperCall(arguments) ==
    ExprStmt([type |-> "CallExpression", callee |-> [type |-> "Super"],
              arguments |-> arguments, optional |-> FALSE])

SpreadArgs == [type |-> "SpreadElement", argument |-> Id("args")]
RestArgs == [type |-> "RestElement", argument |-> Id("args")]

\* slice(k) followed by pop(): the statements after the first k, last one off.
SliceDropLast(functionBody, k) == SubSeq(functionBody, k + 1, Len(functionBody) - 1)

handleSpreadArguments(functionBody, functionExpression, walkBase) ==
    LET thisName == functionBody[1].declarations[1].id.name
        functionBodyClone == <<SuperCall(<<SpreadArgs>>)>> \o SliceDropLast(functionBody, 3)
    IN replaceIdentifierReferences(functionExpression, functionBodyClone, thisName, walkBase)

handleRegularSuperCall(functionBody, functionExpression, superClass, walkBase) ==
    LET thisName == functionBody[1].declarations[1].id.name
        superNode == functionBody[2].expression.right.left
        superArgs == IF superNode.arguments = <<>> THEN <<>> ELSE Tail(superNode.arguments)
        functionBodyClone == <<SuperCall(superArgs)>> \o SliceDropLast(functionBody, 2)
    IN replaceIdentifierReferences(functionExpression, functionBodyClone, thisName, walkBase)

parseConstructor(functionExpression, context) ==
    LET superClass == context.superClass
        walkBase == context.walkBase
        functionBody == functionExpression.body.body
        lastNode == Last(functionBody)
        isSpread == isSpreadArgumentsPattern(functionBody, lastNode, functionExpression, superClass)
        rewritten ==
            IF isSpread
            THEN handleSpreadArguments(functionBody, functionExpression, walkBase)
            ELSE IF isRegularSuperCallPattern(functionBody, lastNode, superClass)
                 THEN handleRegularSuperCall(functionBody, functionExpression, superClass, walkBase)
                 ELSE Ok(functionBody, <<>>)
        nested == Bind(rewritten,
                       LAMBDA clone : processNestedFunctions(functionExpression, clone, walkBase))
    IN IF Len(functionBody) = 0 \/ ~Truthy(lastNode)
       THEN Ok(functionExpression, <<>>)
       ELSE Bind(nested, LAMBDA clone :
                Ok(With(With(functionExpression, "params",
                             IF isSpread THEN <<RestArgs>> ELSE functionExpression.params),
                        "body", With(functionExpression.body, "body", clone)),
                   <<>>))

\* ------------------------------------------------------------ classification
\* findClassType without the test of the call's callee.
findClassType_AnyCall(node, parent) ==
    IF parent.type = "VariableDeclaration" /\ Get(node, "init").type = "CallExpression"
    THEN "Class"
    ELSE IF /\ parent.type = "VariableDeclaration"
            /\ Get(node, "init").type = "NewExpression"
            /\ Get(Get(node, "init"), "callee").type = "ParenthesizedExpression"
         THEN "NewClass"
         ELSE "null"

findClassType(node, parent) ==
    IF /\ parent.type = "VariableDeclaration"
       /\ Get(node, "init").type = "CallExpression"
       /\ Get(Get(node, "init"), "callee").type = "FunctionExpression"
    THEN "Class"
    ELSE IF /\ parent.type = "VariableDeclaration"
            /\ Get(node, "init").type = "NewExpression"
            /\ Get(Get(node, "init"), "callee").type = "ParenthesizedExpression"
         THEN "NewClass"
         ELSE "null"

\* ------------------------------------------------------------ context builder
\* `functionBody[2]?.declarations[0]?.id?.name` (lines 434, 458): raises when
\* the third statement exists and has no `declarations`.
ProtoIdentifierThrows(functionBody) ==
    Truthy(At(functionBody, 2)) /\ ~Has(At(functionBody, 2), "declarations")

ProtoIdentifier(functionBody) ==
    IF Has(At(functionBody, 2), "declarations")
    THEN NameOf(Get(At(At(functionBody, 2).declarations, 0), "id"))
    ELSE ""

\* The condition of the conditional expression of lines 437-441 / 461-465.
IsInheritsCall(functionBody, classConstructor) ==
    /\ Truthy(Get(classConstructor, "id"))
    /\ At(functionBody, 0).type = "ExpressionStatement"
    /\ Get(At(functionBody, 0), "expression").type = "CallExpression"
    /\ Len(At(functionBody, 0).expression.arguments) = 2
    /\ printCode(At(functionBody, 0).expression.arguments[1]) = printCode(classConstructor.id)

\* Lines 433-452 / 457-477, from the factory function on; outerArguments is
\* the argument list the superclass is read from.
ContextFrom(rawFunction, outerArguments, name) ==
    IF ~Truthy(rawFunction) \/ ~Has(Get(rawFunction, "body"), "body") THEN Throw(<<>>)
    ELSE LET functionBody == rawFunction.body.body
             classConstructor == At(functionBody, 1)
         IN IF ProtoIdentifierThrows(functionBody) \/ ~Truthy(classConstructor)
            THEN Throw(<<>>)
            ELSE Ok([name |-> name,
                     superClass |-> IF IsInheritsCall(functionBody, classConstructor)
                                    THEN At(outerArguments, 0) ELSE Null,
                     protoIdentifier |-> ProtoIdentifier(functionBody),
                     classConstructor |-> classConstructor,
                     functionBody |-> functionBody,
                     walkBase |-> EmptyObject], <<>>)

buildClassContext(node, parent, name) ==
    ContextFrom(node.init.callee, node.init.arguments, name)

buildNewClassContext(node, parent, name) ==
    LET inner == Get(node.init.callee, "expression")
    IN IF ~Truthy(inner) THEN Throw(<<>>)
       ELSE ContextFrom(Get(inner, "callee"),
                        IF Has(inner, "arguments") THEN inner.arguments ELSE <<>>, name)

NoContext == [name |-> ""]

\* [found, context]: found = FALSE is the `null` of lines 416 and 427.
buildParsingContext(node, parent, classType) ==
    LET name == NameOf(Get(node, "id"))
        built == IF classType = "Class"
                 THEN buildClassContext(node, parent, name)
                 ELSE buildNewClassContext(node, parent, name)
    IN IF name = "" \/ built.thrown
       THEN [found |-> FALSE, context |-> NoContext]
       ELSE [found |-> TRUE, context |-> built.val]

\* ------------------------------------------------------------ class assembly
MethodDefinition(isStatic, keyName, value) ==
    [type |-> "MethodDefinition", static |-> isStatic, computed |-> FALSE,
     key |-> Id(keyName), kind |-> "method", value |-> value]

createConstructorMethod(classConstructor, context) ==
    Bind(parseFunctionBody(classConstructor, context), LAMBDA deAliased :
        LET constructorExpression ==
                With(With(With(classConstructor, "type", "FunctionExpression"), "id", Null),
                     "body", With(classConstructor.body, "body", deAliased))
        IN Bind(parseConstructor(constructorExpression, context), LAMBDA value :
                Ok(MethodDefinition(FALSE, "constructor", value), <<>>)))

\* The callback of line 596 on one statement; Null is its `null`.
\* A falsy `static` (classConstructor.id absent) is written FALSE.
MethodFromStatement(statement, protoIdentifier, classConstructor, context) ==
    IF \/ statement.type # "ExpressionStatement"
       \/ statement.expression.type # "AssignmentExpression"
       \/ ~isValidMemberExpression(Get(statement.expression, "left"))
       \/ ~isValidFunctionExpression(Get(statement.expression, "right"))
    THEN Ok(Null, <<>>)
    ELSE LET left == statement.expression.left
             right == statement.expression.right
         IN IF ~isValidIdentifier(left.object) \/ ~isValidIdentifier(left.property)
            THEN Ok(Null, <<>>)
            ELSE LET objectName == left.object.name
                     methodName == left.property.name
                     ctorId == Get(classConstructor, "id")
                     isStatic == Truthy(ctorId) /\ objectName = NameOf(ctorId)
                     isValidMethodAssignment == objectName = protoIdentifier \/ isStatic
                 IN IF ~isValidMethodAssignment THEN Ok(Null, <<>>)
                    ELSE Bind(parseFunctionBody(right, context), LAMBDA deAliased :
                            Ok(MethodDefinition(isStatic, methodName,
                                   With(With(right, "id", Null),
                                        "body", With(right.body, "body", deAliased))),
                               <<>>))

RECURSIVE createMethodsFromFunctionBody(_, _, _, _)
createMethodsFromFunctionBody(protoIdentifier, classConstructor, functionBody, context) ==
    IF functionBody = <<>> THEN Ok(<<>>, <<>>)
    ELSE Bind(MethodFromStatement(Head(functionBody), protoIdentifier, classConstructor, context),
              LAMBDA first :
                Bind(createMethodsFromFunctionBody(protoIdentifier, classConstructor,
                                                   Tail(functionBody), context),
                     LAMBDA rest : Ok(<<first>> \o rest, <<>>)))

\* `classConstructor.body.body[0]` (line 553) raises when the second factory
\* statement has no `body`, or a `body` without a statement list.
CtorBodyThrows(classConstructor) ==
    ~Has(classConstructor, "body") \/ ~Has(classConstructor.body, "body")

buildClassBody(protoIdentifier, classConstructor, functionBody, context) ==
    IF CtorBodyThrows(classConstructor) THEN Throw(<<>>)
    ELSE Bind(IF At(classConstructor.body.body, 0).type # "ReturnStatement"
              THEN Bind(createConstructorMethod(classConstructor, context),
                        LAMBDA m : Ok(<<m>>, <<>>))
              ELSE Ok(<<>>, <<>>),
              LAMBDA classBody :
                Bind(createMethodsFromFunctionBody(protoIdentifier, classConstructor,
                                                   functionBody, context),
                     LAMBDA methods : Ok(classBody \o methods, <<>>)))

\* classBody.filter(Boolean)
FilterBoolean(classBody) == SelectSeq(classBody, LAMBDA m : Truthy(m))

ClassFields(n, name, superClass, classBody) ==
    With(With(With(With(n, "type", "ClassDeclaration"), "id", Id(name)),
              "superClass", superClass),
         "body", [type |-> "ClassBody", body |-> FilterBoolean(classBody)])

parseRegularClass(node, parent, context) ==
    Bind(buildClassBody(context.protoIdentifier, context.classConstructor,
                        context.functionBody, context),
         LAMBDA classBody :
            Ok(ClassFields(parent, context.name, context.superClass, classBody), <<>>))

\* Array.prototype.indexOf, 0-based, -1 when absent.
IndexOf(s, x) ==
    IF \E i \in DOMAIN s : s[i] = x
    THEN (CHOOSE i \in DOMAIN s : s[i] = x /\ \A j \in 1..(i - 1) : s[j] # x) - 1
    ELSE -1

\* filter((_, i) => i !== k), k 0-based.
WithoutIndex(s, k) ==
    LET keep == {i \in DOMAIN s : i - 1 # k}
        F[i \in 0..Len(s)] ==
            IF i = 0 THEN <<>>
            ELSE IF i \in keep THEN Append(F[i - 1], s[i]) ELSE F[i - 1]
    IN F[Len(s)]

\* parseNewClass re-attaching the declarator with its `new` callee untouched.
parseNewClass_KeepCallee(node, parent, context) ==
    Bind(buildClassBody(context.protoIdentifier, context.classConstructor,
                        context.functionBody, context),
         LAMBDA classBody :
            LET declaratorIndex == IndexOf(parent.declarations, node)
                otherDeclarations == WithoutIndex(parent.declarations, declaratorIndex)
            IN Ok(With(parent, "declarations", otherDeclarations \o <<node>>), <<>>))

parseNewClass(node, parent, context) ==
    Bind(buildClassBody(context.protoIdentifier, context.classConstructor,
                        context.functionBody, context),
         LAMBDA classBody :
            LET declaratorIndex == IndexOf(parent.declarations, node)
                otherDeclarations == WithoutIndex(parent.declarations, declaratorIndex)
                classNode == ClassFields([type |-> "ClassDeclaration"], context.name,
                                         context.superClass, classBody)
            IN Ok(With(parent, "declarations",
                       otherDeclarations \o
                       <<With(node, "init", With(node.init, "callee", classNode))>>),
                  <<>>))

parseClassByType(classType, node, parent, context) ==
    IF classType = "Class" THEN parseRegularClass(node, parent, context)
    ELSE IF classType = "NewClass" THEN parseNewClass(node, parent, context)
    ELSE Ok(parent, <<>>)

\* The guard of line 375.
MissingArgument(node, parent, walkBase) ==
    ~Truthy(node) \/ ~Truthy(parent) \/ ~Truthy(walkBase)

\* ------------------------------------------------------------------- inputs
\* The trees parse is called on: compiled class factories in the layout the
\* context builder reads (helper call, constructor, prototype alias, member
\* assignments, return), in the layout without helper call and alias,
\* factories with a statement of another kind in a positional slot, and
\* declarators that are no factory at all.
FooProto == Member(Id("Foo"), Id("prototype"))
SuperCallOr(method, args) ==
    Logical(Call(Member(Id("Base"), Id(method)), args), "||", This)

PlainBody == <<ExprStmt(Assign(Member(This, Id("x")), Id("x")))>>
CallOnlyBody == <<ExprStmt(Call(Id("init"), <<>>))>>
ReturnBody == <<Return(Lit("1"))>>
RegularSuperBody ==
    << VarDecl(<<Declarator(Id("_this"), Null)>>),
       ExprStmt(Assign(Id("_this"), SuperCallOr("call", <<This, Id("a"), Id("b")>>))),
       ExprStmt(Assign(Member(Id("_this"), Id("x")), Id("a"))),
       Return(Id("_this")) >>
SpreadBody ==
    << VarDecl(<<Declarator(Id("_this"), Null)>>),
       ForStmt,
       ExprStmt(Assign(Id("_this"), SuperCallOr("apply", <<This, Id("args")>>))),
       ExprStmt(Assign(Member(Id("_this"), Id("x")), Lit("1"))),
       Return(Id("_this")) >>
SelfAliasBody ==
    << VarDecl(<<Declarator(Id("self"), This)>>),
       ExprStmt(Assign(Member(Id("self"), Id("y")), Lit("1"))) >>
PropsAliasBody ==
    << VarDecl(<<Declarator(Id("p"), Member(This, Id("props")))>>),
       ExprStmt(Member(Id("p"), Id("z"))) >>

\* A props alias ahead of the super-call idiom: the idiom is in the first
\* statements of the list only once the alias declaration is removed.
AliasedSuperBody ==
    <<VarDecl(<<Declarator(Id("p"), Member(This, Id("props")))>>)>> \o RegularSuperBody

CtorBodies == {<<>>, PlainBody, CallOnlyBody, ReturnBody, RegularSuperBody, SpreadBody,
               SelfAliasBody, PropsAliasBody, AliasedSuperBody}
CtorParams == {<<>>, <<Id("x")>>}
Ctor(params, stmts) == Func("FunctionDeclaration", Id("Foo"), params, stmts)

MethodFn(stmts) == Func("FunctionExpression", Null, <<>>, stmts)
MemberAssign(object, m, stmts) == ExprStmt(Assign(Member(object, Id(m)), MethodFn(stmts)))
GetBody == <<Return(Member(This, Id("x")))>>
\* `_proto.get = function(){...}`, `Foo.create = ...`, `Foo.prototype.get = ...`,
\* an assignment to another object, and a statement that is no assignment.
MemberStatements ==
    { MemberAssign(Id("_proto"), "get", GetBody),
      MemberAssign(Id("_proto"), "size", <<>>),
      MemberAssign(Id("Foo"), "create", <<>>),
      MemberAssign(FooProto, "get", GetBody),
      MemberAssign(Id("other"), "m", <<>>),
      ExprStmt(Call(Id("helper"), <<>>)) }

RECURSIVE SeqsUpTo(_, _)
SeqsUpTo(S, n) ==
    IF n = 0 THEN {<<>>}
    ELSE LET shorter == SeqsUpTo(S, n - 1)
         IN shorter \cup {Append(q, x) : q \in shorter, x \in S}

MemberLists == SeqsUpTo(MemberStatements, MaxMethods)

InheritsCall == ExprStmt(Call(Id("_inherits"), <<Id("Foo"), Id("Base")>>))
UseStrict == ExprStmt(Lit("use strict"))
Firsts == {InheritsCall, UseStrict}
ProtoDecl == VarDecl(<<Declarator(Id("_proto"), FooProto)>>)
ReturnCtor == Return(Id("Foo"))

\* helper call, constructor, prototype alias, members, return
PositionalLayout(first, ctor, members) ==
    <<first, ctor, ProtoDecl>> \o members \o <<ReturnCtor>>
\* constructor, members, return
DirectLayout(ctor, members) == <<ctor>> \o members \o <<ReturnCtor>>

FactoryBodies ==
    {PositionalLayout(f, Ctor(p, b), m) :
        f \in Firsts, p \in CtorParams, b \in CtorBodies,
        m \in {<<>>, <<MemberAssign(Id("_proto"), "get", GetBody)>>}}
    \cup {PositionalLayout(f, Ctor(<<>>, ReturnBody), m) : f \in Firsts, m \in MemberLists}
    \cup {DirectLayout(Ctor(<<Id("x")>>, b), m) :
            b \in {PlainBody, ReturnBody},
            m \in SeqsUpTo({MemberAssign(FooProto, "get", GetBody)}, MaxMethods)}
    \cup {<<f, ExprStmt(Call(Id("helper"), <<>>)), ProtoDecl, ReturnCtor>> : f \in Firsts}
    \cup {<<f, Ctor(<<>>, b), ExprStmt(Call(Id("helper"), <<>>)), ReturnCtor>> :
            f \in Firsts, b \in {PlainBody, ReturnBody}}
    \cup {<<f, Ctor(<<>>, b)>> : f \in Firsts, b \in {PlainBody, ReturnBody}}
    \cup {<<>>, <<UseStrict>>}

\* Constructor bodies that declare up to MaxAliasDecls aliases, two names over
\* the three canonical targets, one declaration each or all in one
\* declaration, followed by a use of each name.
AliasNames == {"a", "b"}
AliasTargets == {Member(This, Id("props")), Member(This, Id("constructor")), This}
AliasLists ==
    SeqsUpTo({Declarator(Id(n), t) : n \in AliasNames, t \in AliasTargets}, MaxAliasDecls)
        \ {<<>>}
AliasUses == <<ExprStmt(Member(Id("a"), Id("z"))), ExprStmt(Member(Id("b"), Id("z")))>>
AliasBodies ==
    {[i \in DOMAIN ds |-> VarDecl(<<ds[i]>>)] \o AliasUses : ds \in AliasLists}
    \cup {<<VarDecl(ds)>> \o AliasUses : ds \in AliasLists}
AliasFactories == {PositionalLayout(UseStrict, Ctor(<<>>, b), <<>>) : b \in AliasBodies}

FactoryFn(stmts) == Func("FunctionExpression", Null, <<>>, stmts)
OuterArguments == {<<>>, <<Id("Base")>>}

FactoryInits ==
    {Call(FactoryFn(f), a) : f \in FactoryBodies, a \in OuterArguments}
    \cup {New(Paren(Call(FactoryFn(f), a)), <<>>) : f \in FactoryBodies, a \in OuterArguments}

OtherInits ==
    { Null, Lit("1"), Call(Id("make"), <<>>), New(Id("Thing"), <<>>),
      New(Paren(FactoryFn(<<UseStrict, Ctor(<<>>, ReturnBody), ProtoDecl, ReturnCtor>>)), <<>>) }

\* A factory whose rewrite starts no tree walk.
QuietFactory == PositionalLayout(InheritsCall, Ctor(<<>>, ReturnBody), <<>>)

Nodes ==
    {Declarator(Id("Foo"), i) : i \in FactoryInits \cup OtherInits}
    \cup {Declarator([type |-> "ObjectPattern"], Call(FactoryFn(QuietFactory), <<>>))}
    \cup {Declarator(Id("Foo"), Call(FactoryFn(f), <<>>)) : f \in AliasFactories}

SampleNodes ==
    { Declarator(Id("Foo"), Call(FactoryFn(QuietFactory), <<Id("Base")>>)),
      Declarator(Id("Foo"), New(Paren(Call(FactoryFn(QuietFactory), <<Id("Base")>>)), <<>>)),
      Declarator(Id("Foo"),
                 New(Paren(Call(FactoryFn(PositionalLayout(UseStrict, Ctor(<<>>, PlainBody), <<>>)),
                                <<>>)), <<>>)),
      Declarator(Id("Foo"), Lit("1")) }

Sibling(i) == Declarator(Id("s" \o ToString(i)), Lit(ToString(i)))
Siblings(from, to) == [i \in 1..(to - from + 1) |-> Sibling(from + i - 1)]

\* The variable declarations holding n at every position among at most
\* MaxSiblings other declarators.
ParentsOf(n) ==
    UNION {{VarDecl(Siblings(1, j) \o <<n>> \o Siblings(j + 1, k)) : j \in 0..k} :
              k \in 0..MaxSiblings}

CallerBase(i) == [type |-> "WalkBase", id |-> i]
WalkBases == {CallerBase(1), CallerBase(2)}
Missing == {Undefined, Null}

Inputs ==
    {[node |-> n, parent |-> VarDecl(<<n>>), walkBase |-> CallerBase(1)] : n \in Nodes}
    \cup UNION {{[node |-> n, parent |-> p, walkBase |-> b] :
                    p \in ParentsOf(n), b \in WalkBases} : n \in SampleNodes}
    \cup {[node |-> n, parent |-> p, walkBase |-> b] :
            n \in SampleNodes \cup Missing,
            p \in {VarDecl(<<Sibling(1)>>), ExprStmt(Lit("1"))} \cup Missing,
            b \in WalkBases \cup Missing}

\* ------------------------------------------------------------ state machine
VARIABLES node, parent, walkBase, call, pc, classType, context, result, outcome, walks

vars == <<node, parent, walkBase, call, pc, classType, context, result, outcome, walks>>

Init ==
    /\ \E in \in Inputs :
        /\ node = in.node
        /\ parent = in.parent
        /\ walkBase = in.walkBase
    /\ call = 1
    /\ pc = "start"
    /\ classType = "null"
    /\ context = NoContext
    /\ result = Undefined
    /\ outcome = "pending"
    /\ walks = <<>>

\* `return parent` of lines 376, 381 and 386.
ReturnParent ==
    /\ pc' = "done"
    /\ outcome' = "identity"
    /\ result' = parent

\* Lines 375-382: the argument guard and the shape classifier.
Classify ==
    /\ pc = "start"
    /\ IF MissingArgument(node, parent, walkBase)
       THEN ReturnParent /\ UNCHANGED classType
       ELSE /\ classType' = findClassType(node, parent)
            /\ IF classType' = "null"
               THEN ReturnParent
               ELSE pc' = "classified" /\ UNCHANGED <<result, outcome>>
    /\ UNCHANGED <<node, parent, walkBase, call, context, walks>>

\* Lines 384-387.
BuildContext ==
    /\ pc = "classified"
    /\ LET built == buildParsingContext(node, parent, classType)
       IN IF built.found
          THEN /\ context' = built.context
               /\ pc' = "context"
               /\ UNCHANGED <<result, outcome>>
          ELSE ReturnParent /\ UNCHANGED context
    /\ UNCHANGED <<node, parent, walkBase, call, classType, walks>>

\* Line 389: the value parseClassByType returns, or the exception it lets out.
Finish(r) ==
    /\ pc' = "done"
    /\ walks' = r.walks
    /\ outcome' = IF r.thrown THEN "thrown" ELSE "rewritten"
    /\ result' = r.val
    /\ UNCHANGED <<node, parent, walkBase, call, classType, context>>

ParseRegularClass ==
    /\ pc = "context"
    /\ classType = "Class"
    /\ Finish(parseClassByType(classType, node, parent, context))

ParseNewClass ==
    /\ pc = "context"
    /\ classType = "NewClass"
    /\ Finish(parseClassByType(classType, node, parent, context))

\* A second call of parse, on the node the first call returned: the parent
\* is that result, the candidate is any declarator the result holds (the
\* original one under a class declaration, the rewritten copy or a sibling
\* under a variable declaration).
Rerun ==
    /\ pc = "done"
    /\ call = 1
    /\ outcome = "rewritten"
    /\ call' = 2
    /\ parent' = result
    /\ \E i \in DOMAIN result.declarations : node' = result.declarations[i]
    /\ pc' = "start"
    /\ classType' = "null"
    /\ context' = NoContext
    /\ result' = Undefined
    /\ outcome' = "pending"
    /\ walks' = <<>>
    /\ UNCHANGED walkBase

Next == Classify \/ BuildContext \/ ParseRegularClass \/ ParseNewClass \/ Rerun

Spec == Init /\ [][Next]_vars

\* ------------------------------------------------------------------- claims
IsFactoryCall(init) ==
    init.type = "CallExpression" /\ Get(init, "callee").type = "FunctionExpression"
IsWrappedFactory(init) ==
    init.type = "NewExpression" /\ Get(init, "callee").type = "ParenthesizedExpression"

\* (node, parent) matches neither recognized shape.
NoShape ==
    \/ parent.type # "VariableDeclaration"
    \/ ~(IsFactoryCall(Get(node, "init")) \/ IsWrappedFactory(Get(node, "init")))

\* C1: a call of parse with node, parent or walkBase missing, or with
\* (node, parent) matching neither recognized shape, returns the parent that
\* was passed in and leaves node and parent as they were.
C1_NoMatchReturnsParent ==
    [][(pc = "start" /\ (MissingArgument(node, parent, walkBase) \/ NoShape))
        => /\ pc' = "done"
           /\ outcome' = "identity"
           /\ result' = parent
           /\ node' = node
           /\ parent' = parent]_vars

C1_Witness ==
    /\ pc = "done"
    /\ call = 1
    /\ outcome = "identity"
    /\ ~MissingArgument(node, parent, walkBase)
    /\ parent.type = "VariableDeclaration"
    /\ Get(node, "init").type \in {"CallExpression", "NewExpression"}
    /\ NoShape

\* The statements of the factory function of a declarator of either shape
\* (<<>> when the parenthesized expression is no call of a function).
FactoryOf(n) ==
    LET fn == IF IsFactoryCall(n.init) THEN n.init.callee
              ELSE Get(Get(n.init.callee, "expression"), "callee")
    IN IF Has(Get(fn, "body"), "body") THEN fn.body.body ELSE <<>>

Matched == call = 1 /\ ~MissingArgument(node, parent, walkBase) /\ ~NoShape

IsFunctionWithBody(stmt) ==
    /\ stmt.type \in {"FunctionDeclaration", "FunctionExpression"}
    /\ Has(Get(stmt, "body"), "body")

\* C2: no exception crosses parse: on an input of a recognized shape whose
\* factory body lacks the positional layout (second statement a function
\* with a body, third statement a variable declaration: here its second
\* statement is no function with a body, or it has a third statement of
\* another kind) parse returns the parent unchanged.
C2_BadLayoutReturnsParent ==
    (/\ pc = "done"
     /\ Matched
     /\ LET fb == FactoryOf(node)
        IN \/ ~IsFunctionWithBody(At(fb, 1))
           \/ (Truthy(At(fb, 2)) /\ At(fb, 2).type # "VariableDeclaration"))
    => (outcome = "identity" /\ result = parent)

\* The class declaration in a rewritten result: the result itself for the
\* direct shape, the callee of the re-attached `new` for the wrapped shape.
ClassNodeOf(r) ==
    IF r.type = "ClassDeclaration" THEN r ELSE Last(r.declarations).init.callee

\* parse went past the context builder on the first call and has returned.
Built == pc = "done" /\ Matched /\ context # NoContext

\* The class members of the result as <<name, static>> pairs.
MembersOf(r) ==
    LET b == ClassNodeOf(r).body.body
    IN [i \in DOMAIN b |-> <<b[i].key.name, b[i].static>>]

CtorMethodOf(r) == ClassNodeOf(r).body.body[1].value

IsProtoAssignment(stmt, ctorName) ==
    /\ stmt.type = "ExpressionStatement"
    /\ stmt.expression.type = "AssignmentExpression"
    /\ Get(stmt.expression, "left").type = "MemberExpression"
    /\ stmt.expression.left.object = Member(Id(ctorName), Id("prototype"))
    /\ stmt.expression.left.property.type = "Identifier"
    /\ Get(stmt.expression, "right").type = "FunctionExpression"

\* constructor declaration, `Ctor.prototype.<m> = function`..., `return Ctor`
IsDirectLayout(fb) ==
    /\ Len(fb) >= 2
    /\ fb[1].type = "FunctionDeclaration"
    /\ Last(fb) = Return(fb[1].id)
    /\ \A i \in 2..(Len(fb) - 1) : IsProtoAssignment(fb[i], fb[1].id.name)

\* C3: for a DirectFactory declarator whose factory body is the constructor
\* declaration, assignments of functions to `Ctor.prototype.<m>` and
\* `return Ctor`, parse returns a class declaration named after the
\* declarator, without superclass, whose body is the constructor method
\* (the constructor's parameters and statements) followed by one non-static
\* method per prototype assignment.
C3_RoundTripNoInheritance ==
    (/\ pc = "done"
     /\ Matched
     /\ IsFactoryCall(node.init)
     /\ isValidIdentifier(node.id)
     /\ IsDirectLayout(FactoryOf(node))
     /\ At(FactoryOf(node)[1].body.body, 0).type # "ReturnStatement")
    => LET fb == FactoryOf(node) IN
       /\ outcome = "rewritten"
       /\ result.type = "ClassDeclaration"
       /\ result.id = Id(node.id.name)
       /\ ~Truthy(result.superClass)
       /\ Len(result.body.body) = Len(fb) - 1
       /\ CtorMethodOf(result).params = fb[1].params
       /\ CtorMethodOf(result).body.body = fb[1].body.body
       /\ MembersOf(result) =
            <<<<"constructor", FALSE>>>> \o
            [i \in 1..(Len(fb) - 2) |-> <<fb[i + 1].expression.left.property.name, FALSE>>]

\* An expression identifier named v occurs in n.
RECURSIVE Mentions(_, _)
Mentions(n, v) ==
    \/ (n.type = "Identifier" /\ n.name = v)
    \/ \E f \in NodeFields(n) : Mentions(n[f], v)
    \/ \E f \in ListFields(n) : \E i \in DOMAIN n[f] : Mentions(n[f][i], v)

OriginalCtorBody == context.classConstructor.body.body

\* C4: with a superclass present and a constructor body `var v; v =
\* <member call>(ctx, a1..an) || this; ...; return v`, the output class has
\* that superclass and its constructor body starts with `super(a1..an)`,
\* holds neither the leading declaration, nor the assignment, nor the
\* trailing return, and no reference to v.
C4_RegularSuperCall ==
    (/\ Built
     /\ IsFunctionWithBody(context.classConstructor)
     /\ Truthy(context.superClass)
     /\ isRegularSuperCallPattern(OriginalCtorBody, Last(OriginalCtorBody), context.superClass))
    => LET old == OriginalCtorBody
           v == old[1].declarations[1].id.name
           args == old[2].expression.right.left.arguments
       IN /\ outcome = "rewritten"
          /\ ClassNodeOf(result).superClass = context.superClass
          /\ LET new == CtorMethodOf(result).body.body
             IN /\ new # <<>>
                /\ new[1] = SuperCall(Tail(args))
                /\ \A i \in DOMAIN new : new[i] \notin {old[1], old[2], Last(old)}
                /\ \A i \in DOMAIN new : ~Mentions(new[i], v)

\* C5: with a superclass present, no declared parameter and a constructor
\* body `var v; for (...) ...; v = <call> || this; ...; return v`, the output
\* constructor has the rest parameter as its only parameter and its body is
\* `super(...rest)` followed by the statements between the third statement
\* and the trailing return.
C5_SpreadSuperCall ==
    (/\ Built
     /\ IsFunctionWithBody(context.classConstructor)
     /\ isSpreadArgumentsPattern(OriginalCtorBody, Last(OriginalCtorBody),
                                 context.classConstructor, context.superClass))
    => /\ outcome = "rewritten"
       /\ CtorMethodOf(result).params = <<RestArgs>>
       /\ LET new == CtorMethodOf(result).body.body
          IN /\ Len(new) = Len(OriginalCtorBody) - 3
             /\ new[1] = SuperCall(<<SpreadArgs>>)
             /\ \A i \in DOMAIN new : new[i].type \notin {"ForStatement", "ReturnStatement"}

\* The top-level declarators of a body that alias `this` or `this.props`.
AliasDeclarators(body) ==
    LET ds == TopDeclarators(body)
    IN {ds[i] : i \in {j \in DOMAIN ds :
                         ds[j].init \in {This, Member(This, Id("props"))}}}

\* A member access on the identifier a occurs in n.
RECURSIVE UsesAlias(_, _)
UsesAlias(n, a) ==
    \/ (n.type = "MemberExpression" /\ n.object = Id(a))
    \/ \E f \in NodeFields(n) : UsesAlias(n[f], a)
    \/ \E f \in ListFields(n) : \E i \in DOMAIN n[f] : UsesAlias(n[f][i], a)

\* C6: in a function body processed by the de-aliaser (here the
\* constructor's), a top-level `var self = this` or `var p = this.props` is
\* removed, no member access on the alias is left, and no declaration
\* statement is left without declarators.
C6_AliasesCollapsed ==
    (/\ Built
     /\ IsFunctionWithBody(context.classConstructor)
     /\ AliasDeclarators(OriginalCtorBody) # {})
    => /\ outcome = "rewritten"
       /\ LET new == CtorMethodOf(result).body.body
          IN /\ AliasDeclarators(new) = {}
             /\ \A d \in AliasDeclarators(OriginalCtorBody) :
                    \A i \in DOMAIN new : ~UsesAlias(new[i], d.id.name)
             /\ \A i \in DOMAIN new :
                    new[i].type = "VariableDeclaration" => new[i].declarations # <<>>

\* The statement has the form `O.m = function(...){...}` with O the
\* prototype alias or the constructor's name.
IsMemberAssignment(stmt, proto, ctorName) ==
    /\ stmt.type = "ExpressionStatement"
    /\ stmt.expression.type = "AssignmentExpression"
    /\ Get(stmt.expression, "left").type = "MemberExpression"
    /\ stmt.expression.left.object.type = "Identifier"
    /\ stmt.expression.left.property.type = "Identifier"
    /\ Get(stmt.expression, "right").type = "FunctionExpression"
    /\ stmt.expression.left.object.name \in {proto, ctorName}

RECURSIVE ExpectedMembers(_, _, _)
ExpectedMembers(fb, proto, ctorName) ==
    IF fb = <<>> THEN <<>>
    ELSE (IF IsMemberAssignment(Head(fb), proto, ctorName)
          THEN <<<<Head(fb).expression.left.property.name,
                   Head(fb).expression.left.object.name = ctorName>>>>
          ELSE <<>>)
         \o ExpectedMembers(Tail(fb), proto, ctorName)

\* C7: the output class body is the constructor method (present iff the
\* constructor's body does not start with a return statement) followed by
\* one method per factory statement `O.m = function`, O the prototype alias
\* or the constructor's name, in source order, static iff O is the
\* constructor's name; no other statement yields a member.
C7_MethodExtraction ==
    (/\ Built
     /\ IsFunctionWithBody(context.classConstructor)
     /\ isValidIdentifier(context.classConstructor.id))
    => /\ outcome = "rewritten"
       /\ MembersOf(result) =
            (IF At(OriginalCtorBody, 0).type # "ReturnStatement"
             THEN <<<<"constructor", FALSE>>>> ELSE <<>>)
            \o ExpectedMembers(context.functionBody, context.protoIdentifier,
                               context.classConstructor.id.name)

\* C8: parse called again on a rewritten result, with any declarator of that
\* result as candidate, returns it unchanged, the result matching neither
\* factory shape.
C8_RerunIsNoOp ==
    (call = 2 /\ pc # "start")
    => /\ pc = "done"
       /\ classType = "null"
       /\ outcome = "identity"
       /\ result = parent

C8_Witness ==
    /\ call = 2
    /\ pc = "done"
    /\ parent.type = "VariableDeclaration"
    /\ Get(node, "init").type = "NewExpression"
    /\ node.init.callee.type = "ClassDeclaration"

\* C9: every tree walk started during a call of parse is handed the base
\* visitor the caller passed to parse.
C9_WalkBaseForwarded ==
    \A i \in DOMAIN walks : walks[i].base = walkBase

\* C10: the result for the wrapped shape is the parent declaration with the
\* matched declarator replaced, at its position, by a copy whose `new` has
\* the class as callee; the other declarators, their order and their number
\* are as in the parent.
C10_DeclaratorReplacedInPlace ==
    (/\ pc = "done"
     /\ Matched
     /\ IsWrappedFactory(node.init)
     /\ outcome = "rewritten")
    => LET old == parent.declarations
           new == result.declarations
           k == IndexOf(old, node) + 1
       IN /\ result.type = "VariableDeclaration"
          /\ Len(new) = Len(old)
          /\ \A i \in DOMAIN old : i # k => new[i] = old[i]
          /\ new[k].id = node.id
          /\ new[k].init.type = "NewExpression"
          /\ new[k].init.arguments = node.init.arguments
          /\ new[k].init.callee.type = "ClassDeclaration"

\* The de-aliaser has run on the constructor body: its walk is the first one
\* started.
DeAliased ==
    /\ Built
    /\ IsFunctionWithBody(context.classConstructor)
    /\ walks # <<>>
    /\ walks[1].site = "applyVariableReplacements"

\* The canonical targets an alias map slot stands for.
CanonicalTargets ==
    [thisProps |-> Member(This, Id("props")),
     thisConstructor |-> Member(This, Id("constructor"))]

\* The positions, among the top-level declarators ds, of the declarators
\* `var <name> = <target>`.
DeclaratorsFor(ds, target) ==
    {j \in DOMAIN ds : ds[j].id.type = "Identifier" /\ ds[j].init = target}

RecordedNames(replacements) ==
    {replacements.thisProps, replacements.thisConstructor, replacements.thisMirror}

SeqRange(q) == {q[i] : i \in DOMAIN q}
SetMin(S) == CHOOSE x \in S : \A y \in S : x <= y
SetMax(S) == CHOOSE x \in S : \A y \in S : y <= x

\* C11 (as stated): when a body holds several top-level declarators with the
\* same canonical target, the alias recorded for the target is the name of
\* the first of them, and a later one (under a name that is not recorded) is
\* not removed.
C11_FirstAliasWins ==
    DeAliased
    => LET ds == TopDeclarators(OriginalCtorBody)
           recorded == extractVariableReplacements(OriginalCtorBody)
           cleaned == cleanupVariableDeclarations(OriginalCtorBody, recorded)
       IN \A k \in DOMAIN CanonicalTargets :
            LET js == DeclaratorsFor(ds, CanonicalTargets[k])
            IN js # {}
               => /\ recorded[k] = ds[SetMin(js)].id.name
                  /\ \A j \in js \ {SetMin(js)} :
                        ds[j].id.name # ds[SetMin(js)].id.name
                        => ds[j] \in SeqRange(TopDeclarators(cleaned))

\* C11 (amended): when a body holds several top-level declarators with the
\* same canonical target (this.props or this.constructor), the alias
\* recorded for the target is the name of the last of them; the declarators
\* removed are exactly those whose name is a recorded alias, so an earlier
\* one under a name that is not recorded stays; and the de-aliaser returns
\* the cleaned body with no use rewritten, or raises.
C11_LastAliasWins ==
    DeAliased
    => LET ds == TopDeclarators(OriginalCtorBody)
           recorded == extractVariableReplacements(OriginalCtorBody)
           cleaned == cleanupVariableDeclarations(OriginalCtorBody, recorded)
           r == parseFunctionBody(context.classConstructor, context)
       IN /\ \A k \in DOMAIN CanonicalTargets :
                LET js == DeclaratorsFor(ds, CanonicalTargets[k])
                IN js # {}
                   => /\ recorded[k] = ds[SetMax(js)].id.name
                      /\ \A j \in js \ {SetMax(js)} :
                            ds[j].id.name \notin RecordedNames(recorded)
                            => ds[j] \in SeqRange(TopDeclarators(cleaned))
          /\ TopDeclarators(cleaned)
                = SelectSeq(ds, LAMBDA d : d.id.name \notin RecordedNames(recorded))
          /\ r.thrown \/ r.val = cleaned

\* The de-aliaser ran on a body with two declarators of a canonical target
\* under different names.
C11_Witness ==
    /\ DeAliased
    /\ LET ds == TopDeclarators(OriginalCtorBody)
       IN \E k \in DOMAIN CanonicalTargets :
            \E i, j \in DeclaratorsFor(ds, CanonicalTargets[k]) :
                i < j /\ ds[i].id.name # ds[j].id.name

\* The walk sites of the run, in the order the walks were started.
WalkSites == [i \in DOMAIN walks |-> walks[i].site]

\* C12: for a constructor whose original statement list holds a super-call
\* idiom, the walk of the super-call rewriting is started first, the walk of
\* the de-aliaser second and the walk of the nested function recurser
\* third, and the super-call rewriting walks exactly once in the run.
C12_SuperCallThenDeAliaserThenNested ==
    (/\ Built
     /\ IsFunctionWithBody(context.classConstructor)
     /\ \/ isSpreadArgumentsPattern(OriginalCtorBody, Last(OriginalCtorBody),
                                    context.classConstructor, context.superClass)
        \/ isRegularSuperCallPattern(OriginalCtorBody, Last(OriginalCtorBody),
                                     context.superClass))
    => /\ Len(WalkSites) >= 3
       /\ SubSeq(WalkSites, 1, 3)
            = <<"replaceIdentifierReferences", "applyVariableReplacements",
                "processNestedFunctions">>
       /\ Cardinality({i \in DOMAIN WalkSites :
                         WalkSites[i] = "replaceIdentifierReferences"}) = 1

====
